---- MODULE Spec2Model ----
(***************************************************************************)
(* Model of the storagecart Cart class (src/src/index.ts): an insertion-   *)
(* ordered Map from item id to item record, rewritten as a whole to the    *)
(* localStorage entry "cartItems" by every mutating method.                *)
(*                                                                         *)
(* Numbers.  Prices are JavaScript doubles.  The model keeps a price as an *)
(* integer count of 1/Unit, and a rate as a count of 1/RateDen, with       *)
(* RateDen = 2 and Unit a power of two: every price, rate, product and     *)
(* difference the model forms is a dyadic rational of a few bits, which a  *)
(* double holds exactly, so the integer arithmetic below is the double     *)
(* arithmetic of the code on these values.  A rate method is taken only    *)
(* where its products are exact and its results within MaxPrice.           *)
(* Quantities are integers (the item type of the specification).           *)
(***************************************************************************)
EXTENDS Integers, Sequences, FiniteSets, TLC

\* ------------------------------------------------------------------ bounds
\* Number of times a unit price can be halved exactly.
MaxHalvings == 2
\* Largest quantity an increment (add on a present id, more) is taken to.
MaxQty == 2

\* One price unit 1.0, counted in the model's smallest price step.
Unit == 2 ^ MaxHalvings
\* Largest absolute price (tax may double a unit price once).
MaxPrice == 2 * Unit
\* Denominator of the modelled rates: a rate is a count of 1/RateDen.
RateDen == 2

\* ------------------------------------------------------------------ inputs
\* Item ids passed by callers; 0 is the falsy id.
Ids == {0, 1, 2}
\* Prices passed to add: negative, 0 (falsy), positive.
AddPrices == {-Unit, 0, Unit}
\* Quantities passed to add.
AddQuantities == {0, 1, 2}
\* An opaque caller field of T.
Names == {"a"}
\* Items passed to add.
Items == [id : Ids, price : AddPrices, quantity : AddQuantities, name : Names]
\* Rates passed to discount and applyTax: below 0, 0, between, 1, above 1.
Rates == {-1, 0, 1, RateDen, RateDen + 1}

\* JavaScript truthiness of a number: 0 is falsy (NaN is outside the model).
Truthy(n) == n # 0

\* ------------------------------------------------- Map<string | number, T>
\* A Map is the sequence of its entries [k, v] in insertion order.
MapKeys(m) == {m[i].k : i \in 1..Len(m)}

MapHas(m, key) == key \in MapKeys(m)

MapIndex(m, key) == CHOOSE i \in 1..Len(m) : m[i].k = key

\* Map.prototype.get; called on present keys only (absence is MapHas).
MapGet(m, key) == m[MapIndex(m, key)].v

\* Map.prototype.set: a present key keeps its position, a new key is appended.
MapSet(m, key, val) ==
  IF MapHas(m, key)
    THEN [m EXCEPT ![MapIndex(m, key)] = [k |-> key, v |-> val]]
    ELSE Append(m, [k |-> key, v |-> val])

\* Map.prototype.delete.
MapDelete(m, key) == SelectSeq(m, LAMBDA e : e.k # key)

\* Map.prototype.clear / new Map().
EmptyMap == << >>

\* JSON.stringify(Array.from(map.entries())): the list of [key, record] pairs.
Stringify(m) == [i \in 1..Len(m) |-> <<m[i].k, m[i].v>>]

RECURSIVE FromPairs(_, _)
FromPairs(pairs, m) ==
  IF pairs = << >> THEN m
  ELSE FromPairs(Tail(pairs), MapSet(m, Head(pairs)[1], Head(pairs)[2]))

\* new Map(JSON.parse(text)): Map.set of every pair, in order.
Parse(text) == FromPairs(text, EmptyMap)

\* ------------------------------------------------------------ localStorage
\* The entry "cartItems": absent, or present with its text.
Absent == [has |-> FALSE, text |-> << >>]

Entry(text) == [has |-> TRUE, text |-> text]

\* constructor, lines 18-19: getItem, then parse or start empty.
Load(ls) == IF ls.has THEN Parse(ls.text) ELSE EmptyMap

VARIABLES
  _items,        \* _items[c]: the Map of the constructed Cart instance c
  localStorage,  \* the localStorage entry "cartItems"
  last           \* the last completed call and the state it started from

vars == <<_items, localStorage, last>>

\* ----------------------------------------------------------------- methods
\* A method runs on w = [m, ls, sets, removes]: the instance's Map, the
\* store entry, and the setItem / removeItem calls made so far in this call.
World(c) == [m |-> _items[c], ls |-> localStorage, sets |-> 0, removes |-> 0]

\* _updateLocalStorage, lines 5-10.
_updateLocalStorage(w) ==
  [w EXCEPT !.ls = Entry(Stringify(w.m)), !.sets = @ + 1]

\* Mutant of InvalidItem: quantity 0 passes (< instead of <=).
InvalidItem_NegativeOnly(item) ==
  ~Truthy(item.id) \/ ~Truthy(item.price) \/ item.quantity < 0

\* Mutant of InvalidItem: the quantity test is missing.
InvalidItem_NoQuantity(item) == ~Truthy(item.id) \/ ~Truthy(item.price)

\* add's guard, line 31.
InvalidItem(item) ==
  ~Truthy(item.id) \/ ~Truthy(item.price) \/ item.quantity <= 0

\* Mutant of add: the store is written before the Map is changed.
add_PersistFirst(w, item) ==
  LET m2 == IF MapHas(w.m, item.id)
              THEN MapSet(w.m, item.id,
                          [MapGet(w.m, item.id) EXCEPT !.quantity = @ + 1])
              ELSE MapSet(w.m, item.id, item)
  IN [_updateLocalStorage(w) EXCEPT !.m = m2]

\* Mutant of add: a present id's quantity grows by the argument's quantity.
add_AddsQuantity(w, item) ==
  LET m2 == IF MapHas(w.m, item.id)
              THEN MapSet(w.m, item.id,
                          [MapGet(w.m, item.id)
                             EXCEPT !.quantity = @ + item.quantity])
              ELSE MapSet(w.m, item.id, item)
  IN _updateLocalStorage([w EXCEPT !.m = m2])

\* Mutant of add: a present id is overwritten by the argument.
add_Overwrite(w, item) ==
  _updateLocalStorage([w EXCEPT !.m = MapSet(@, item.id, item)])

\* add, lines 34-40 (after the guard).
add(w, item) ==
  LET m2 == IF MapHas(w.m, item.id)
              THEN MapSet(w.m, item.id,
                          [MapGet(w.m, item.id) EXCEPT !.quantity = @ + 1])
              ELSE MapSet(w.m, item.id, item)
  IN _updateLocalStorage([w EXCEPT !.m = m2])

\* Mutant of remove: the whole Map is emptied.
remove_Clears(w, id) == _updateLocalStorage([w EXCEPT !.m = EmptyMap])

\* Mutant of remove: the record is deleted but the store is not rewritten.
remove_NoPersist(w, id) == [w EXCEPT !.m = MapDelete(@, id)]

\* remove, lines 50-53.
remove(w, id) == _updateLocalStorage([w EXCEPT !.m = MapDelete(@, id)])

\* Mutant of less: no return after remove, so the store is written twice.
less_DoublePersist(w, id) ==
  IF MapHas(w.m, id)
    THEN IF MapGet(w.m, id).quantity > 1
           THEN _updateLocalStorage(
                  [w EXCEPT !.m = MapSet(@, id,
                      [MapGet(w.m, id) EXCEPT !.quantity = @ - 1])])
           ELSE _updateLocalStorage(remove(w, id))
    ELSE _updateLocalStorage(w)

\* Mutant of less: the decrement branch is taken for quantity >= 1.
less_ToZero(w, id) ==
  IF MapHas(w.m, id)
    THEN IF MapGet(w.m, id).quantity >= 1
           THEN _updateLocalStorage(
                  [w EXCEPT !.m = MapSet(@, id,
                      [MapGet(w.m, id) EXCEPT !.quantity = @ - 1])])
           ELSE remove(w, id)
    ELSE _updateLocalStorage(w)

\* less, lines 62-73.
less(w, id) ==
  IF MapHas(w.m, id)
    THEN IF MapGet(w.m, id).quantity > 1
           THEN _updateLocalStorage(
                  [w EXCEPT !.m = MapSet(@, id,
                      [MapGet(w.m, id) EXCEPT !.quantity = @ - 1])])
           ELSE remove(w, id)
    ELSE _updateLocalStorage(w)

\* Mutant of more: the quantity is raised but the store is not rewritten.
more_NoPersist(w, id) ==
  IF MapHas(w.m, id)
    THEN [w EXCEPT !.m = MapSet(@, id,
             [MapGet(w.m, id) EXCEPT !.quantity = @ + 1])]
    ELSE w

\* Mutant of more: the store is written only when the id is present.
more_SkipWhenAbsent(w, id) ==
  IF MapHas(w.m, id)
    THEN _updateLocalStorage(
           [w EXCEPT !.m = MapSet(@, id,
               [MapGet(w.m, id) EXCEPT !.quantity = @ + 1])])
    ELSE w

\* more, lines 81-87.
more(w, id) ==
  LET m2 == IF MapHas(w.m, id)
              THEN MapSet(w.m, id, [MapGet(w.m, id) EXCEPT !.quantity = @ + 1])
              ELSE w.m
  IN _updateLocalStorage([w EXCEPT !.m = m2])

\* Mutant of clear: the Map is emptied but the store entry is left in place.
clear_KeepsEntry(w) == [w EXCEPT !.m = EmptyMap]

\* Mutant of clear: an empty list is written instead of removing the entry.
clear_WritesEmpty(w) == _updateLocalStorage([w EXCEPT !.m = EmptyMap])

\* clear, lines 94-98.
clear(w) == [w EXCEPT !.m = EmptyMap, !.ls = Absent, !.removes = @ + 1]

\* Mutant of InvalidRate: the upper limit is not tested.
InvalidRate_NoUpper(rate) == rate < 0

\* The guard of discount and applyTax, lines 109 and 134.
InvalidRate(rate) == rate < 0 \/ rate > RateDen

\* price * rate, with rate in 1/RateDen.
Times(price, rate) == (price * rate) \div RateDen

\* Mutant of discount: the rate is not tested.
discount_Unguarded(w, rate) ==
  _updateLocalStorage(
    [w EXCEPT !.m = [i \in 1..Len(w.m) |->
       [w.m[i] EXCEPT !.v.price = @ - Times(@, rate)]]])

\* Mutant of discount: the price is set to price * rate.
discount_SetsProduct(w, rate) ==
  IF InvalidRate(rate) THEN w
  ELSE _updateLocalStorage(
         [w EXCEPT !.m = [i \in 1..Len(w.m) |->
            [w.m[i] EXCEPT !.v.price = Times(@, rate)]]])

\* discount, lines 108-114.
discount(w, rate) ==
  IF InvalidRate(rate) THEN w
  ELSE _updateLocalStorage(
         [w EXCEPT !.m = [i \in 1..Len(w.m) |->
            [w.m[i] EXCEPT !.v.price = @ - Times(@, rate)]]])

\* Mutant of applyTax: the rate itself is added to the price.
applyTax_AddsRate(w, rate) ==
  IF InvalidRate(rate) THEN w
  ELSE _updateLocalStorage(
         [w EXCEPT !.m = [i \in 1..Len(w.m) |->
            [w.m[i] EXCEPT !.v.price = @ + (rate * Unit) \div RateDen]]])

RECURSIVE PersistTimes(_, _)
PersistTimes(w, n) ==
  IF n = 0 THEN w ELSE PersistTimes(_updateLocalStorage(w), n - 1)

\* Mutant of applyTax: the store is written inside the loop, once per record.
applyTax_PersistEach(w, rate) ==
  IF InvalidRate(rate) THEN w
  ELSE PersistTimes(
         [w EXCEPT !.m = [i \in 1..Len(w.m) |->
            [w.m[i] EXCEPT !.v.price = @ + Times(@, rate)]]], Len(w.m))

\* applyTax, lines 133-139.
applyTax(w, rate) ==
  IF InvalidRate(rate) THEN w
  ELSE _updateLocalStorage(
         [w EXCEPT !.m = [i \in 1..Len(w.m) |->
            [w.m[i] EXCEPT !.v.price = @ + Times(@, rate)]]])

\* ----------------------------------------------------------------- queries
hasItem(m, id) == MapHas(m, id)

isEmpty(m) == Len(m) = 0

\* getProductAmount, lines 167-170.
getProductAmount(m, id) ==
  IF MapHas(m, id) THEN MapGet(m, id).quantity * MapGet(m, id).price ELSE 0

\* getProductQuantity, lines 178-181.
getProductQuantity(m, id) == IF MapHas(m, id) THEN MapGet(m, id).quantity ELSE 0

RECURSIVE PriceLoop(_, _)
PriceLoop(m, total) ==
  IF m = << >> THEN total
  ELSE PriceLoop(Tail(m), total + Head(m).v.price)

\* Mutant of getTotalAmount: the quantity is left out of the product.
getTotalAmount_PriceOnly(m) == PriceLoop(m, 0)

\* The forEach of getTotalAmount, lines 190-192, entry by entry.
RECURSIVE TotalAmountLoop(_, _)
TotalAmountLoop(m, total) ==
  IF m = << >> THEN total
  ELSE TotalAmountLoop(Tail(m),
                       total + Head(m).v.quantity * Head(m).v.price)

\* getTotalAmount, lines 188-194.
getTotalAmount(m) == TotalAmountLoop(m, 0)

\* The forEach of getTotalItemCount, lines 203-205, entry by entry.
RECURSIVE TotalItemCountLoop(_, _)
TotalItemCountLoop(m, total) ==
  IF m = << >> THEN total
  ELSE TotalItemCountLoop(Tail(m), total + Head(m).v.quantity)

\* getTotalItemCount, lines 201-207.
getTotalItemCount(m) == TotalItemCountLoop(m, 0)

\* ------------------------------------------------------------------- state
NoItem == [id |-> 0, price |-> 0, quantity |-> 0, name |-> "a"]

\* last.writer: the instance whose call was the latest to touch the store
\* entry; Nobody after a clear, Earlier while the entry is still the one
\* found at construction.
Nobody == 0

Earlier == -1

Call(op, c, id, item, rate, raised, w) ==
  [op |-> op, c |-> c, id |-> id, item |-> item, rate |-> rate,
   raised |-> raised, sets |-> w.sets, removes |-> w.removes,
   pre |-> _items[c], preStore |-> localStorage,
   writer |-> IF w.sets > 0 THEN c
              ELSE IF w.removes > 0 THEN Nobody ELSE last.writer]

Commit(c, w) ==
  /\ _items' = [_items EXCEPT ![c] = w.m]
  /\ localStorage' = w.ls

\* A snapshot an earlier session of the program can have left in the store.
SavedItem == [id |-> 1, price |-> Unit, quantity |-> 2, name |-> "a"]

InitStores ==
  {Absent, Entry(<< >>), Entry(<<<<1, SavedItem>>>>)}

\* Bound: the rate's products are exact (all a discount needs: it never
\* raises the size of a price).
RateExact(m, rate) ==
  \A i \in 1..Len(m) : (m[i].v.price * rate) % RateDen = 0

\* Bound: the rate's products are exact and the taxed prices within MaxPrice.
RateInBounds(m, rate) ==
  \A i \in 1..Len(m) :
    /\ (m[i].v.price * rate) % RateDen = 0
    /\ m[i].v.price + Times(m[i].v.price, rate) <= MaxPrice
    /\ m[i].v.price + Times(m[i].v.price, rate) >= -MaxPrice

Init ==
  /\ localStorage \in InitStores
  /\ _items = [c \in {1} |-> Load(localStorage)]
  /\ last = [op |-> "new", c |-> 1, id |-> 0, item |-> NoItem, rate |-> 0,
             raised |-> FALSE, sets |-> 0, removes |-> 0,
             pre |-> EmptyMap, preStore |-> localStorage, writer |-> Earlier]

AddInvalid(c) ==
  \E item \in Items :
    /\ InvalidItem(item)
    /\ UNCHANGED <<_items, localStorage>>
    /\ last' = Call("add", c, item.id, item, 0, TRUE, World(c))

Add(c) ==
  \E item \in Items :
    /\ ~InvalidItem(item)
    /\ MapHas(_items[c], item.id) => MapGet(_items[c], item.id).quantity < MaxQty
    /\ LET w == add(World(c), item)
       IN Commit(c, w) /\ last' = Call("add", c, item.id, item, 0, FALSE, w)

Remove(c) ==
  \E id \in Ids :
    LET w == remove(World(c), id)
    IN Commit(c, w) /\ last' = Call("remove", c, id, NoItem, 0, FALSE, w)

Less(c) ==
  \E id \in Ids :
    LET w == less(World(c), id)
    IN Commit(c, w) /\ last' = Call("less", c, id, NoItem, 0, FALSE, w)

More(c) ==
  \E id \in Ids :
    /\ MapHas(_items[c], id) => MapGet(_items[c], id).quantity < MaxQty
    /\ LET w == more(World(c), id)
       IN Commit(c, w) /\ last' = Call("more", c, id, NoItem, 0, FALSE, w)

Clear(c) ==
  LET w == clear(World(c))
  IN Commit(c, w) /\ last' = Call("clear", c, 0, NoItem, 0, FALSE, w)

Discount(c) ==
  \E rate \in Rates :
    /\ InvalidRate(rate) \/ RateExact(_items[c], rate)
    /\ LET w == discount(World(c), rate)
       IN Commit(c, w) /\ last' = Call("discount", c, 0, NoItem, rate, FALSE, w)

ApplyTax(c) ==
  \E rate \in Rates :
    /\ InvalidRate(rate) \/ RateInBounds(_items[c], rate)
    /\ LET w == applyTax(World(c), rate)
       IN Commit(c, w) /\ last' = Call("applyTax", c, 0, NoItem, rate, FALSE, w)

Next ==
  \E c \in DOMAIN _items :
    \/ AddInvalid(c)
    \/ Add(c)
    \/ Remove(c)
    \/ Less(c)
    \/ More(c)
    \/ Clear(c)
    \/ Discount(c)
    \/ ApplyTax(c)

Spec == Init /\ [][Next]_vars

\* ------------------------------------------------- two calls in sequence
\* A caller's two consecutive calls on one instance; the code is
\* synchronous, so nothing runs between them.
\* cart.applyTax(rate); cart.discount(rate)
TaxThenDiscount(c) ==
  \E rate \in Rates :
    LET w1 == applyTax(World(c), rate)
        w2 == discount(w1, rate)
    IN /\ InvalidRate(rate)
            \/ (RateInBounds(_items[c], rate) /\ RateExact(w1.m, rate))
       /\ Commit(c, w2)
       /\ last' = Call("applyTax;discount", c, 0, NoItem, rate, FALSE, w2)

\* cart.more(id); cart.less(id)
MoreThenLess(c) ==
  \E id \in Ids :
    /\ MapHas(_items[c], id) => MapGet(_items[c], id).quantity <= MaxQty
    /\ LET w == less(more(World(c), id), id)
       IN Commit(c, w) /\ last' = Call("more;less", c, id, NoItem, 0, FALSE, w)

\* cart.less(id); cart.more(id)
LessThenMore(c) ==
  \E id \in Ids :
    LET w == more(less(World(c), id), id)
    IN Commit(c, w) /\ last' = Call("less;more", c, id, NoItem, 0, FALSE, w)

NextSeq ==
  \/ Next
  \/ \E c \in DOMAIN _items :
       \/ TaxThenDiscount(c)
       \/ MoreThenLess(c)
       \/ LessThenMore(c)

SpecSeq == Init /\ [][NextSeq]_vars

\* ------------------------------------------- two instances over one store
\* Instance numbers: a second Cart can be constructed over the same store.
Carts == {1, 2}

\* constructor, lines 12-20, run while another instance is live.
New(c) ==
  /\ c \notin DOMAIN _items
  /\ _items' = [d \in DOMAIN _items \cup {c} |->
                  IF d = c THEN Load(localStorage) ELSE _items[d]]
  /\ UNCHANGED localStorage
  /\ last' = [op |-> "new", c |-> c, id |-> 0, item |-> NoItem, rate |-> 0,
              raised |-> FALSE, sets |-> 0, removes |-> 0,
              pre |-> EmptyMap, preStore |-> localStorage,
              writer |-> last.writer]

\* Bound on the calls of the two-instance runs: one item id (and the falsy
\* one), no negative price.
SharedCalls == last'.id # 2 /\ last'.item.price >= 0

NextTwo ==
  \/ \E c \in Carts : New(c)
  \/ Next /\ SharedCalls

SpecTwo == Init /\ [][NextTwo]_vars

\* ------------------------------------------------------------------ claims
\* The instance, Map and entries the last call ran on.
Cur == _items[last.c]

Keys(m) == [i \in 1..Len(m) |-> m[i].k]

Quantities(m) == [i \in 1..Len(m) |-> m[i].v.quantity]

\* Every record other than id's is the same in m as in pre.
OthersUnchanged(pre, m, id) ==
  /\ MapDelete(m, id) = MapDelete(pre, id)

\* C1: after every completed call (failed and no-op calls included), a Cart
\* constructed from the current store entry has the same Map, entry for
\* entry, as the running Cart.
C1_StoreAgreement ==
  \A c \in DOMAIN _items : Load(localStorage) = _items[c]

\* C1 witness: a valid discount rewrote a two-record cart.
C1_Witness ==
  /\ last.op = "discount" /\ last.sets = 1 /\ last.rate = 1
  /\ Len(Cur) = 2 /\ Cur # last.pre
  /\ localStorage.has /\ Len(localStorage.text) = 2

\* C2: every stored record has quantity >= 1, and a less that would take a
\* quantity to 0 removes the record instead.
C2_QuantityPositive ==
  /\ \A c \in DOMAIN _items :
       \A i \in 1..Len(_items[c]) : _items[c][i].v.quantity >= 1
  /\ (last.op = "less" /\ MapHas(last.pre, last.id)
        /\ MapGet(last.pre, last.id).quantity - 1 = 0)
       => ~MapHas(Cur, last.id)

\* C2 witness: less ran on a record of quantity 1.
C2_Witness ==
  /\ last.op = "less" /\ MapHas(last.pre, last.id)
  /\ MapGet(last.pre, last.id).quantity = 1
  /\ Len(last.pre) = 2

\* C3: a valid add of a present id raises that record's quantity by exactly
\* 1 and keeps the number of entries (one entry for the id); a valid add of
\* an absent id adds exactly one entry, a copy of the item.
C3_AddEffect ==
  (last.op = "add" /\ ~last.raised) =>
    /\ Cardinality({i \in 1..Len(Cur) : Cur[i].k = last.id}) = 1
    /\ IF MapHas(last.pre, last.id)
         THEN /\ Len(Cur) = Len(last.pre)
              /\ MapGet(Cur, last.id).quantity
                   = MapGet(last.pre, last.id).quantity + 1
         ELSE /\ Len(Cur) = Len(last.pre) + 1
              /\ MapGet(Cur, last.id) = last.item

\* C3 witness: a valid add on an id already in a two-record cart.
C3_Witness ==
  /\ last.op = "add" /\ ~last.raised
  /\ MapHas(last.pre, last.id) /\ Len(last.pre) = 2

\* C4: add with a falsy id, a falsy price or quantity <= 0 raises and leaves
\* the Map and the store entry as they were, with no setItem call, also
\* when the id is already in the cart.
C4_InvalidAdd ==
  (last.op = "add"
     /\ (last.item.id = 0 \/ last.item.price = 0 \/ last.item.quantity <= 0))
    => /\ last.raised
       /\ Cur = last.pre
       /\ localStorage = last.preStore
       /\ last.sets = 0 /\ last.removes = 0

\* C4 witness: an add of quantity 0 raised on an id that is in the cart.
C4_Witness ==
  /\ last.op = "add" /\ last.raised
  /\ last.item.quantity = 0 /\ last.item.price # 0
  /\ MapHas(last.pre, last.id) /\ last.preStore.has

\* C5: after clear the Map is empty, the store entry is absent (not an
\* empty list), and a Cart constructed now is empty.
C5_Clear ==
  last.op = "clear" =>
    /\ Cur = EmptyMap
    /\ ~localStorage.has
    /\ localStorage # Entry(Stringify(EmptyMap))
    /\ Load(localStorage) = EmptyMap

\* C5 witness: clear ran on a non-empty cart with a store entry.
C5_Witness ==
  /\ last.op = "clear" /\ Len(last.pre) = 2 /\ last.preStore.has

\* C6: discount and applyTax with rate < 0 or rate > 1 change no key, price
\* or quantity, raise nothing and make no store call.
C6_InvalidRateNoOp ==
  (last.op \in {"discount", "applyTax"}
     /\ (last.rate < 0 \/ last.rate > RateDen))
    => /\ ~last.raised
       /\ Cur = last.pre
       /\ localStorage = last.preStore
       /\ last.sets = 0 /\ last.removes = 0

\* C6 witness: discount with a rate above 1 on a non-empty cart.
C6_Witness ==
  /\ last.op = "discount" /\ last.rate > RateDen
  /\ Len(last.pre) = 2

\* C7: for 0 <= r <= 1, discount(r) sets every price to price*(1-r) and
\* changes no quantity and no key; discount(0) changes no price and
\* discount(1) sets every price to 0.
C7_Discount ==
  (last.op = "discount" /\ 0 <= last.rate /\ last.rate <= RateDen) =>
    /\ Keys(Cur) = Keys(last.pre)
    /\ Quantities(Cur) = Quantities(last.pre)
    /\ \A i \in 1..Len(last.pre) :
         /\ Cur[i].v.price * RateDen
              = last.pre[i].v.price * (RateDen - last.rate)
         /\ last.rate = 0 => Cur[i].v.price = last.pre[i].v.price
         /\ last.rate = RateDen => Cur[i].v.price = 0
         /\ Cur[i].v.name = last.pre[i].v.name
         /\ Cur[i].v.id = last.pre[i].v.id

\* C7 witness: discount(1/2) on two records with different non-zero prices.
C7_Witness ==
  /\ last.op = "discount" /\ last.rate = 1
  /\ Len(last.pre) = 2
  /\ last.pre[1].v.price # 0
  /\ last.pre[1].v.price # last.pre[2].v.price
  /\ last.pre[2].v.price # 0

\* C8: for 0 <= r <= 1, applyTax(r) sets every price to price + price*r,
\* changes no quantity and no key, and calls setItem exactly once whatever
\* the number of records.
C8_ApplyTax ==
  (last.op = "applyTax" /\ 0 <= last.rate /\ last.rate <= RateDen) =>
    /\ Keys(Cur) = Keys(last.pre)
    /\ Quantities(Cur) = Quantities(last.pre)
    /\ \A i \in 1..Len(last.pre) :
         /\ Cur[i].v.price * RateDen
              = last.pre[i].v.price * (RateDen + last.rate)
         /\ Cur[i].v.name = last.pre[i].v.name
         /\ Cur[i].v.id = last.pre[i].v.id
    /\ last.sets = 1 /\ last.removes = 0

\* C8 witness: applyTax(1/2) on two records, one of them with a price.
C8_Witness ==
  /\ last.op = "applyTax" /\ last.rate = 1
  /\ Len(last.pre) = 2
  /\ last.pre[1].v.price # 0

\* C9: less on a record of quantity 1 removes it (hasItem false, the
\* persisted snapshot without the id); less on a record of quantity > 1
\* lowers its quantity by exactly 1 and keeps it; every other record is
\* unchanged in both cases.
C9_Less ==
  (last.op = "less" /\ MapHas(last.pre, last.id)) =>
    /\ IF MapGet(last.pre, last.id).quantity = 1
         THEN /\ ~hasItem(Cur, last.id)
              /\ localStorage.has
              /\ \A i \in 1..Len(localStorage.text) :
                   localStorage.text[i][1] # last.id
         ELSE /\ hasItem(Cur, last.id)
              /\ MapGet(Cur, last.id)
                   = [MapGet(last.pre, last.id) EXCEPT !.quantity = @ - 1]
              /\ Keys(Cur) = Keys(last.pre)
    /\ OthersUnchanged(last.pre, Cur, last.id)

\* C9 witness: less on a quantity-1 record next to another record.
C9_Witness ==
  /\ last.op = "less" /\ MapHas(last.pre, last.id)
  /\ MapGet(last.pre, last.id).quantity = 1
  /\ Len(last.pre) = 2 /\ Len(Cur) = 1

\* C10: remove, less and more on an id that is not in the cart raise
\* nothing and leave the Map unchanged, yet call setItem once with the
\* current Map: the entry exists afterwards and reloads to the same Map.
C10_AbsentIdWrites ==
  (last.op \in {"remove", "less", "more"} /\ ~MapHas(last.pre, last.id)) =>
    /\ ~last.raised
    /\ Cur = last.pre
    /\ last.sets = 1 /\ last.removes = 0
    /\ localStorage.has
    /\ Load(localStorage) = Cur

\* C10 witness: more on an absent id while the store entry was absent.
C10_Witness ==
  /\ last.op = "more" /\ ~MapHas(last.pre, last.id)
  /\ ~last.preStore.has /\ localStorage.has

\* C11: remove on a present id deletes exactly that record: hasItem is
\* false and getProductQuantity 0 afterwards, every other record is
\* unchanged, the store is rewritten with the new Map, and the cart is
\* empty if the record was the only one.
C11_RemovePresent ==
  (last.op = "remove" /\ MapHas(last.pre, last.id)) =>
    /\ ~hasItem(Cur, last.id)
    /\ getProductQuantity(Cur, last.id) = 0
    /\ Len(Cur) = Len(last.pre) - 1
    /\ \A k \in MapKeys(last.pre) \ {last.id} :
         hasItem(Cur, k) /\ MapGet(Cur, k) = MapGet(last.pre, k)
    /\ last.sets = 1 /\ last.removes = 0
    /\ localStorage = Entry(Stringify(Cur))
    /\ Len(last.pre) = 1 => isEmpty(Cur)

\* C11 witness: remove deleted one of two records.
C11_Witness ==
  /\ last.op = "remove" /\ MapHas(last.pre, last.id)
  /\ Len(last.pre) = 2 /\ Len(Cur) = 1

\* C12 as stated: applyTax(r) then discount(r), 0 <= r <= 1, leaves every
\* price at p*(1-r^2), and that price differs from the original p.
C12_NeverCancels ==
  (last.op = "applyTax;discount" /\ 0 <= last.rate /\ last.rate <= RateDen) =>
    \A i \in 1..Len(last.pre) :
      /\ Cur[i].v.price * RateDen * RateDen
           = last.pre[i].v.price * (RateDen * RateDen - last.rate * last.rate)
      /\ Cur[i].v.price # last.pre[i].v.price

\* C12 amended: applyTax(r) then discount(r), 0 <= r <= 1, leaves every
\* price at p*(1-r^2), which differs from p exactly when r # 0 and p # 0;
\* keys and quantities are unchanged.
C12_TaxThenDiscount ==
  (last.op = "applyTax;discount" /\ 0 <= last.rate /\ last.rate <= RateDen) =>
    /\ Keys(Cur) = Keys(last.pre)
    /\ Quantities(Cur) = Quantities(last.pre)
    /\ \A i \in 1..Len(last.pre) :
         /\ Cur[i].v.price * RateDen * RateDen
              = last.pre[i].v.price
                  * (RateDen * RateDen - last.rate * last.rate)
         /\ (Cur[i].v.price # last.pre[i].v.price)
              <=> (last.rate # 0 /\ last.pre[i].v.price # 0)

\* C12 witness: rate 1/2 on a unit price left three quarters of it.
C12_Witness ==
  /\ last.op = "applyTax;discount" /\ last.rate = 1
  /\ Len(last.pre) = 2
  /\ last.pre[1].v.price = Unit
  /\ Cur[1].v.price * 4 = 3 * Unit

\* The sum of F[x] over the finite set S.
RECURSIVE SumOver(_, _)
SumOver(S, F) ==
  IF S = {} THEN 0
  ELSE LET x == CHOOSE y \in S : TRUE
       IN F[x] + SumOver(S \ {x}, F)

\* C13: getTotalAmount is the sum of quantity*price over the records, which
\* is the sum of getProductAmount(id) over the ids in the cart;
\* getTotalItemCount is the sum of the quantities, the sum of
\* getProductQuantity(id); both are 0 for an empty cart, and
\* getProductAmount and getProductQuantity are 0 for an absent id.
C13_Totals ==
  \A c \in DOMAIN _items :
    LET m == _items[c]
    IN /\ getTotalAmount(m)
            = SumOver(1..Len(m), [i \in 1..Len(m) |-> m[i].v.quantity * m[i].v.price])
       /\ getTotalAmount(m)
            = SumOver(MapKeys(m), [id \in MapKeys(m) |-> getProductAmount(m, id)])
       /\ getTotalItemCount(m)
            = SumOver(1..Len(m), [i \in 1..Len(m) |-> m[i].v.quantity])
       /\ getTotalItemCount(m)
            = SumOver(MapKeys(m), [id \in MapKeys(m) |-> getProductQuantity(m, id)])
       /\ isEmpty(m) => getTotalAmount(m) = 0 /\ getTotalItemCount(m) = 0
       /\ \A id \in Ids \ MapKeys(m) :
            getProductAmount(m, id) = 0 /\ getProductQuantity(m, id) = 0

\* C13 witness: two records of quantity 2 with different non-zero prices,
\* after a discount, and an id that is not in the cart.
C13_Witness ==
  /\ last.op = "discount"
  /\ Len(Cur) = 2
  /\ Cur[1].v.quantity = 2 /\ Cur[2].v.quantity = 2
  /\ Cur[1].v.price # 0 /\ Cur[2].v.price # 0
  /\ Cur[1].v.price # Cur[2].v.price
  /\ getTotalAmount(Cur) = 2 * (Cur[1].v.price + Cur[2].v.price)
  /\ getTotalItemCount(Cur) = 4

\* C14: on add's increment path (valid argument, id present) the argument's
\* price and quantity are ignored: the stored record keeps its price, also
\* one changed by earlier discount or applyTax calls, its quantity rises by
\* exactly 1, and every other record is unchanged.
C14_IncrementIgnoresArgument ==
  (last.op = "add" /\ ~last.raised /\ MapHas(last.pre, last.id)) =>
    /\ MapGet(Cur, last.id)
         = [MapGet(last.pre, last.id) EXCEPT !.quantity = @ + 1]
    /\ Keys(Cur) = Keys(last.pre)
    /\ OthersUnchanged(last.pre, Cur, last.id)

\* C14 witness: the argument carried quantity 2 and a price other than the
\* stored (discounted or taxed) one, next to a second record.
C14_Witness ==
  /\ last.op = "add" /\ ~last.raised /\ MapHas(last.pre, last.id)
  /\ last.item.quantity = 2
  /\ MapGet(last.pre, last.id).price \notin AddPrices
  /\ Len(last.pre) = 2

\* C15: a valid add, remove, more, less (present with quantity > 1, present
\* with quantity 1, absent) and discount / applyTax with a valid rate each
\* call setItem exactly once; clear calls removeItem once and setItem never.
C15_OneWritePerCall ==
  /\ (last.op = "add" /\ ~last.raised) => last.sets = 1 /\ last.removes = 0
  /\ last.op \in {"remove", "more", "less"}
       => last.sets = 1 /\ last.removes = 0
  /\ (last.op \in {"discount", "applyTax"}
        /\ 0 <= last.rate /\ last.rate <= RateDen)
       => last.sets = 1 /\ last.removes = 0
  /\ last.op = "clear" => last.sets = 0 /\ last.removes = 1

\* C15 witness: less on a record of quantity 1, the branch that goes
\* through remove.
C15_Witness ==
  /\ last.op = "less" /\ MapHas(last.pre, last.id)
  /\ MapGet(last.pre, last.id).quantity = 1
  /\ ~MapHas(Cur, last.id)
  /\ last.sets = 1

NoNegativePrice(m) == \A i \in 1..Len(m) : m[i].v.price >= 0

\* C16: no price is negative at construction, and a call takes a cart
\* without negative prices to one with a negative price only if it is an
\* add that succeeds with a negative price in its argument; so with
\* positive prices in every add, every stored price stays >= 0 under
\* discount and applyTax with any rate.
C16_PriceSign ==
  /\ \A c \in DOMAIN _items : NoNegativePrice(_items[c])
  /\ [][\A c \in DOMAIN _items :
          (NoNegativePrice(_items[c]) /\ ~NoNegativePrice(_items'[c]))
            => /\ last'.op = "add" /\ last'.c = c /\ ~last'.raised
               /\ last'.item.price < 0]_vars

\* C16 witness: an add with a negative price was accepted into a cart whose
\* prices had been halved and were all >= 0.
C16_Witness ==
  /\ last.op = "add" /\ ~last.raised /\ last.item.price < 0
  /\ Len(last.pre) = 1 /\ NoNegativePrice(last.pre)
  /\ last.pre[1].v.price * 2 = Unit
  /\ MapGet(Cur, last.id).price < 0

\* C18: isEmpty() holds exactly when getTotalItemCount() is 0, and
\* hasItem(id) exactly when getProductQuantity(id) > 0.
C18_QueriesAgree ==
  \A c \in DOMAIN _items :
    /\ isEmpty(_items[c]) <=> getTotalItemCount(_items[c]) = 0
    /\ \A id \in Ids :
         hasItem(_items[c], id) <=> getProductQuantity(_items[c], id) > 0

\* C18 witness: one id in the cart with quantity 2, another id not in it.
C18_Witness ==
  /\ last.op = "more"
  /\ Len(Cur) = 1
  /\ hasItem(Cur, 1) /\ getProductQuantity(Cur, 1) = 2
  /\ ~hasItem(Cur, 2) /\ getProductQuantity(Cur, 2) = 0
  /\ ~isEmpty(Cur) /\ getTotalItemCount(Cur) = 2

\* C17: more(id) then less(id) on a present id restores the Map and the
\* persisted snapshot exactly, for every quantity; less(id) then more(id)
\* restores them when the quantity was > 1, and at quantity 1 leaves the
\* record removed (more does not re-create it).
C17_MoreLessRoundTrip ==
  /\ (last.op = "more;less" /\ MapHas(last.pre, last.id)) =>
       /\ Cur = last.pre
       /\ localStorage = last.preStore
  /\ (last.op = "less;more" /\ MapHas(last.pre, last.id)) =>
       IF MapGet(last.pre, last.id).quantity > 1
         THEN /\ Cur = last.pre
              /\ localStorage = last.preStore
         ELSE /\ ~hasItem(Cur, last.id)
              /\ Cur = MapDelete(last.pre, last.id)
              /\ Cur # last.pre
              /\ localStorage = Entry(Stringify(Cur))
              /\ localStorage # last.preStore

\* C17 witness: less then more on a record of quantity 1 next to another
\* record: the record is gone.
C17_Witness ==
  /\ last.op = "less;more" /\ MapHas(last.pre, last.id)
  /\ MapGet(last.pre, last.id).quantity = 1
  /\ Len(last.pre) = 2 /\ Len(Cur) = 1
  /\ last.sets = 2

\* C19: with two instances over one store and any interleaving of their
\* calls, the store entry is the serialized Map of the instance whose call
\* was the latest to write it, or absent if the latest call to touch it was
\* a clear; the other instance's Map need not agree with the store.
C19_LastWriterWins ==
  /\ last.writer \in DOMAIN _items
       => localStorage = Entry(Stringify(_items[last.writer]))
  /\ last.writer = Nobody => localStorage = Absent
  /\ last.sets > 0 => last.writer = last.c
  /\ (last.sets = 0 /\ last.removes > 0) => last.writer = Nobody

\* C19 witness: instance 2 holds a record, instance 1 wrote last with an
\* empty Map: the record is not in the store, and a reload differs from
\* instance 2's Map.
C19_Witness ==
  /\ DOMAIN _items = Carts
  /\ last.c = 1 /\ last.sets = 1 /\ last.writer = 1
  /\ _items[1] = EmptyMap
  /\ Len(_items[2]) = 1 /\ _items[2][1].v.quantity = 2
  /\ localStorage = Entry(Stringify(_items[1]))
  /\ Load(localStorage) # _items[2]

====
